---- MODULE Spec2Model ----
(***************************************************************************)
(* Quantum Atom Sandbox (src/QuantumSim.cpp): the entity store (atoms,     *)
(* links), the per-frame activation scheduler and orbit integrator, and    *)
(* the pointer interaction machine of main()'s event loop.                 *)
(*                                                                         *)
(* Coordinates are the integer pixel coordinates SFML delivers; every      *)
(* float the model computes with them is an integer far below 2^24, so the *)
(* float arithmetic of the program is exact on them.  Simulation time is a *)
(* clock reading drawn from 0..MaxTime (seconds).  Electron angles are     *)
(* kept in units of 1/60000 rad and speeds in units of 1/1000 rad/s, so    *)
(* that one integration step (speed * 1/60) adds the speed to the angle.   *)
(***************************************************************************)
EXTENDS Integers, Sequences, FiniteSets, TLC

\* ------------------------------------------------------------------ bounds
\* Largest id addAtom may assign: in a run of Spec; of SpecStore and
\* SpecCmd; of SpecSched and SpecPress.
MaxAtoms == 2
StoreAtoms == 3
FewAtoms == 1
\* Largest clock reading (seconds) the environment delivers: in a run of
\* SpecSched; of SpecOrbit.
MaxTime == 3
OrbitTime == 1
\* Atomic numbers handed to makeElectronsForElement: -BelowZ..MaxZ.
BelowZ == 2
MaxZ == 26

\* ------------------------------------------------------- program constants
SIDEBAR_W == 320
WinWidth == 1200
WinHeight == 800
CanvasMargin == 20
NucleusRadius == 16
HitMargin == 8
ScheduleDelay == 2
ElectronCap == 24
NoDrag == -1
NoHit == -1
ButtonLeft == 16
ButtonTop == 20
ButtonHeight == 32
ListTop == 340
RowLeft == 16
RowHeight == 22
RowPitch == 24

\* ELEMENTS[i].atomicNumber, i = 0..9 (a TLA+ sequence is indexed from 1).
ElementZ == <<1, 2, 3, 4, 5, 6, 7, 8, 11, 17>>
NumElements == Len(ElementZ)

Min(a, b) == IF a < b THEN a ELSE b
Max(a, b) == IF a > b THEN a ELSE b

\* std::clamp(v, lo, hi)
Clamp(v, lo, hi) == IF v < lo THEN lo ELSE IF hi < v THEN hi ELSE v

\* Mutant of clampToCanvas: the margin is left out on the left and top.
clampToCanvasNoMargin(p) ==
    << Clamp(p[1], SIDEBAR_W, WinWidth - CanvasMargin),
       Clamp(p[2], 0, WinHeight - CanvasMargin) >>

\* clampToCanvas(p, window.getSize())
clampToCanvas(p) ==
    << Clamp(p[1], SIDEBAR_W + CanvasMargin, WinWidth - CanvasMargin),
       Clamp(p[2], CanvasMargin, WinHeight - CanvasMargin) >>

\* sf::FloatRect(left, top, width, height).contains(p): half-open on the
\* right and bottom edges.
RectContains(left, top, width, height, p) ==
    /\ p[1] >= left /\ p[1] < left + width
    /\ p[2] >= top  /\ p[2] < top + height

\* The eight buttons in the order they are pushed: <<left, top, width>>.
ButtonRects ==
    << <<ButtonLeft, ButtonTop, 140>>,
       <<ButtonLeft + 160, ButtonTop, 140>>,
       <<ButtonLeft, ButtonTop + 48, 300>>,
       <<ButtonLeft, ButtonTop + 88, 300>>,
       <<ButtonLeft, ButtonTop + 128, 300>>,
       <<ButtonLeft, ButtonTop + 168, 300>>,
       <<ButtonLeft, ButtonTop + 208, 300>>,
       <<ButtonLeft, ButtonTop + 248, 300>> >>
ButtonNames ==
    << "prevElement", "nextElement", "addAtom", "toggleActiveSelected",
       "scheduleSelected", "linkPair", "removeSelected", "clearAll" >>

\* pointInRect(m, b.box.getGlobalBounds()) for button k
OverButton(k, m) ==
    RectContains(ButtonRects[k][1], ButtonRects[k][2], ButtonRects[k][3],
                 ButtonHeight, m)

\* The first button under the pointer (the loop breaks on it), 0 if none.
ButtonAt(m) ==
    IF \E k \in 1..Len(ButtonRects) : OverButton(k, m)
    THEN CHOOSE k \in 1..Len(ButtonRects) :
            /\ OverButton(k, m)
            /\ \A j \in 1..(k - 1) : ~OverButton(j, m)
    ELSE 0

\* length(m - a.pos) <= a.nucleusRadius + 8.f, on integer coordinates
Hits(m, pos) ==
    LET dx == m[1] - pos[1]
        dy == m[2] - pos[2]
        r  == NucleusRadius + HitMargin
    IN  dx * dx + dy * dy <= r * r

\* ------------------------------------------- electron distribution (4.1)
\* Mutant of ShellCap: the physical capacities of the comment of line 102.
ShellCapPhysical == <<2, 8, 18, 32>>

ShellCap == <<2, 8, 8, 18>>
ShellRadius == <<30, 50, 70, 90>>
\* (s % 2 == 0 ? 0.8f : -0.5f) * (1.f - s*0.1f), in 1/1000 rad/s, s = 0..3
ShellBaseSpeed(s) == ((IF s % 2 = 0 THEN 800 ELSE -500) * (10 - s)) \div 10
\* 2*pi*60000, the full turn in angle units (2.f * 3.1415926f)
FullTurn == 376991
\* The k-th value of std::rand() % 100 after std::srand(seed): the generator
\* is the C library's; what the program relies on is a value in 0..99 fixed
\* by seed and k.
RandMod100(seed, k) == (seed * 37 + k * 61 + 11) % 100

\* Electrons already placed in the shells before shell s (s = 1..4).
RECURSIVE PlacedBefore(_, _)
PlacedBefore(s, total) ==
    IF s = 1 THEN 0
    ELSE LET before == PlacedBefore(s - 1, total)
         IN  before + Min(total - before, ShellCap[s - 1])

makeElectronsForElement(atomicNumber, seed) ==
    LET total  == Min(atomicNumber, ElectronCap)
        inShell(s) == Max(0, Min(total - PlacedBefore(s, total), ShellCap[s]))
        count  == inShell(1) + inShell(2) + inShell(3) + inShell(4)
        shellOf(n) == CHOOSE s \in 1..4 :
                         /\ PlacedBefore(s, total) < n
                         /\ n <= PlacedBefore(s, total) + inShell(s)
    IN  [ n \in 1..count |->
            LET s == shellOf(n)
                i == n - 1 - PlacedBefore(s, total)
            IN  [ radius |-> ShellRadius[s],
                  angle  |-> (FullTurn * i) \div Max(1, inShell(s)),
                  speed  |-> ShellBaseSpeed(s - 1)
                             + 2 * (RandMod100(seed, n - 1) - 50) ] ]

\* ------------------------------------------------------------------ state
VARIABLES
    atoms,            \* std::vector<Atom>, in store order
    links,            \* std::vector<Link>
    nextId,           \* int nextId
    selectedElement,  \* int selectedElement (0-based, as in the code)
    now,              \* the latest reading of simClock
    dragging,         \* bool dragging
    dragOffset,       \* sf::Vector2f dragOffset
    draggingId,       \* int draggingId
    hover,            \* Button::hover of the eight buttons
    last              \* the event the loop handled last (history)

vars == << atoms, links, nextId, selectedElement, now,
           dragging, dragOffset, draggingId, hover, last >>
store == << atoms, links, nextId, selectedElement, now >>
drag == << dragging, dragOffset, draggingId >>

\* std::optional<float>: empty is <<>>, a value t is <<t>>.
NoSchedule == <<>>
HasSchedule(a) == Len(a.scheduledStart) > 0

Init ==
    /\ atoms = <<>>
    /\ links = <<>>
    /\ nextId = 1
    /\ selectedElement = 0
    /\ now = 0
    /\ dragging = FALSE
    /\ dragOffset = <<0, 0>>
    /\ draggingId = NoDrag
    /\ hover = [k \in 1..Len(ButtonRects) |-> FALSE]
    /\ last = [ev |-> "none", info |-> <<>>]

\* ---------------------------------------------------------------- helpers
Indices(s) == 1..Len(s)
\* The ids of the selected atoms, in store order.
SelectedIds(as) ==
    LET IsSelected(a) == a.selected
        sel == SelectSeq(as, IsSelected)
    IN  [i \in Indices(sel) |-> sel[i].id]
IdSet(as) == {as[i].id : i \in Indices(as)}

\* --------------------------------------------------------------- commands
\* The Atom addAtom builds (lines 148-154); pos is the point the two
\* std::rand() calls give, seed the value of std::time(nullptr).
NewAtom(id, elementIndex, pos, seed) ==
    [ id             |-> id,
      elementIndex   |-> elementIndex,
      pos            |-> pos,
      active         |-> FALSE,
      selected       |-> FALSE,
      electrons      |-> makeElectronsForElement(ElementZ[elementIndex + 1], seed),
      scheduledStart |-> NoSchedule ]

addAtom(pos, seed) ==
    /\ atoms' = Append(atoms, NewAtom(nextId, selectedElement, pos, seed))
    /\ nextId' = nextId + 1
    /\ UNCHANGED << links, selectedElement, now >>

\* Mutant of AtomsAfterRemove: only the first selected atom is erased.
AtomsAfterRemoveFirstOnly(as) ==
    LET toRemoveIds == SelectedIds(as)
        Keep(a) == toRemoveIds = <<>> \/ toRemoveIds[1] # a.id
    IN  SelectSeq(as, Keep)

\* atoms.erase(remove_if(atoms, id in toRemoveIds))
AtomsAfterRemove(as) ==
    LET toRemoveIds == SelectedIds(as)
        Keep(a) == \A i \in Indices(toRemoveIds) : toRemoveIds[i] # a.id
    IN  SelectSeq(as, Keep)

\* Mutant of LinksAfterRemove: only the aId endpoint is looked up.
LinksAfterRemoveAOnly(as, ls) ==
    LET toRemoveIds == SelectedIds(as)
        Keep(L) == \A i \in Indices(toRemoveIds) : toRemoveIds[i] # L.aId
    IN  SelectSeq(ls, Keep)

\* Mutant of LinksAfterRemove: a removal drops every link.
LinksAfterRemoveClears(as, ls) ==
    IF SelectedIds(as) = <<>> THEN ls ELSE <<>>

\* links.erase(remove_if(links, aId in toRemoveIds || bId in toRemoveIds))
LinksAfterRemove(as, ls) ==
    LET toRemoveIds == SelectedIds(as)
        Keep(L) == \A i \in Indices(toRemoveIds) :
                       toRemoveIds[i] # L.aId /\ toRemoveIds[i] # L.bId
    IN  SelectSeq(ls, Keep)

removeSelected ==
    /\ atoms' = AtomsAfterRemove(atoms)
    /\ links' = LinksAfterRemove(atoms, links)
    /\ UNCHANGED << nextId, selectedElement, now >>

\* Mutant of AtomsAfterToggle: the toggled atoms are deselected.
AtomsAfterToggleDeselects(as) ==
    [i \in Indices(as) |->
        IF as[i].selected
        THEN [as[i] EXCEPT !.active = ~as[i].active, !.selected = FALSE]
        ELSE as[i]]

\* Mutant of AtomsAfterToggle: an atom that becomes active starts its
\* electrons over from angle 0.
AtomsAfterToggleResetsAngles(as) ==
    [i \in Indices(as) |->
        IF as[i].selected
        THEN [as[i] EXCEPT
                 !.active = ~as[i].active,
                 !.electrons = [n \in Indices(as[i].electrons) |->
                                   IF as[i].active THEN as[i].electrons[n]
                                   ELSE [as[i].electrons[n] EXCEPT !.angle = 0]]]
        ELSE as[i]]

\* for (auto& a : atoms) if (a.selected) a.active = !a.active;
AtomsAfterToggle(as) ==
    [i \in Indices(as) |->
        IF as[i].selected THEN [as[i] EXCEPT !.active = ~as[i].active]
        ELSE as[i]]

toggleActiveSelected ==
    /\ atoms' = AtomsAfterToggle(atoms)
    /\ UNCHANGED << links, nextId, selectedElement, now >>

\* Mutant of AtomsAfterSchedule: with nothing selected every atom is
\* scheduled.
AtomsAfterScheduleAllIfNone(as, t) ==
    [i \in Indices(as) |->
        IF as[i].selected \/ SelectedIds(as) = <<>>
        THEN [as[i] EXCEPT !.scheduledStart = <<t + ScheduleDelay>>]
        ELSE as[i]]

\* Mutant of AtomsAfterSchedule: scheduling an atom puts it to rest.
AtomsAfterScheduleDeactivates(as, t) ==
    [i \in Indices(as) |->
        IF as[i].selected
        THEN [as[i] EXCEPT !.scheduledStart = <<t + ScheduleDelay>>,
                           !.active = FALSE]
        ELSE as[i]]

\* for (auto& a : atoms) if (a.selected) a.scheduledStart = t + 2.0f;
AtomsAfterSchedule(as, t) ==
    [i \in Indices(as) |->
        IF as[i].selected
        THEN [as[i] EXCEPT !.scheduledStart = <<t + ScheduleDelay>>]
        ELSE as[i]]

\* t is what simClock.getElapsedTime() returns at the call.
scheduleSelected(t) ==
    /\ now' = t
    /\ atoms' = AtomsAfterSchedule(atoms, t)
    /\ UNCHANGED << links, nextId, selectedElement >>

\* Mutant of clearAll: the id counter starts over.
clearAllResetsIds ==
    /\ atoms' = <<>>
    /\ links' = <<>>
    /\ nextId' = 1
    /\ UNCHANGED << selectedElement, now >>

clearAll ==
    /\ atoms' = <<>>
    /\ links' = <<>>
    /\ UNCHANGED << nextId, selectedElement, now >>

\* The pair linkPair stores for sel[0], sel[1]: swapped when a > b.
CanonicalPair(a, b) ==
    IF a > b THEN [aId |-> b, bId |-> a] ELSE [aId |-> a, bId |-> b]

\* Mutant of LinksAfterLinkPair: the pair is stored without the
\* duplicate check.
LinksAfterLinkPairNoDedup(as, ls) ==
    LET sel == SelectedIds(as)
    IN  IF Len(sel) = 2 THEN Append(ls, CanonicalPair(sel[1], sel[2])) ELSE ls

LinksAfterLinkPair(as, ls) ==
    LET sel == SelectedIds(as)
    IN  IF Len(sel) = 2
        THEN LET L == CanonicalPair(sel[1], sel[2])
                 exists == \E i \in Indices(ls) :
                              ls[i].aId = L.aId /\ ls[i].bId = L.bId
             IN  IF exists THEN ls ELSE Append(ls, L)
        ELSE ls

linkPair ==
    /\ links' = LinksAfterLinkPair(atoms, links)
    /\ UNCHANGED << atoms, nextId, selectedElement, now >>

prevElement ==
    /\ selectedElement' = (selectedElement - 1 + NumElements) % NumElements
    /\ UNCHANGED << atoms, links, nextId, now >>

nextElement ==
    /\ selectedElement' = (selectedElement + 1) % NumElements
    /\ UNCHANGED << atoms, links, nextId, now >>

\* b.onClick() of button k; env carries what the command draws from its
\* environment: the clock reading, the random position, the srand seed.
OnClick(k, env) ==
    CASE k = 1 -> prevElement
      [] k = 2 -> nextElement
      [] k = 3 -> addAtom(env.pos, env.seed)
      [] k = 4 -> toggleActiveSelected
      [] k = 5 -> scheduleSelected(env.clk)
      [] k = 6 -> linkPair
      [] k = 7 -> removeSelected
      [] k = 8 -> clearAll

\* ------------------------------------------------------------ event loop
\* The history variable: the event just handled.  Link Pair and Remove
\* Selected also record the number of links before them, a frame update
\* the number of schedules it fired.  A press that follows addAtom and
\* selects the new atom alone is marked <<1>>, and a Remove Selected that
\* follows such a press carries the mark as a second component.
Event(ev, info) == [ev |-> ev, info |-> info]

\* The first atom in store order whose id is id (the loops break on it),
\* as an index; 0 when there is none.
IndexOfId(as, id) ==
    IF \E i \in Indices(as) : as[i].id = id
    THEN CHOOSE i \in Indices(as) :
            as[i].id = id /\ \A j \in 1..(i - 1) : as[j].id # id
    ELSE 0

\* Mutant of AtomsAfterMove: when no atom has the dragged id, the last
\* atom of the store follows the pointer.
AtomsAfterMoveFallsBack(as, m, isDragging, id, offset) ==
    LET i == IF IndexOfId(as, id) # 0 THEN IndexOfId(as, id) ELSE Len(as)
    IN  IF isDragging /\ id # NoDrag /\ i # 0
        THEN [as EXCEPT ![i].pos =
                 clampToCanvas(<<m[1] - offset[1], m[2] - offset[2]>>)]
        ELSE as

\* MouseMoved, the drag part: the dragged atom follows the pointer.
AtomsAfterMove(as, m, isDragging, id, offset) ==
    LET i == IndexOfId(as, id)
    IN  IF isDragging /\ id # NoDrag /\ i # 0
        THEN [as EXCEPT ![i].pos =
                 clampToCanvas(<<m[1] - offset[1], m[2] - offset[2]>>)]
        ELSE as

MouseMoved(m) ==
    /\ hover' = [k \in 1..Len(ButtonRects) |-> OverButton(k, m)]
    /\ atoms' = AtomsAfterMove(atoms, m, dragging, draggingId, dragOffset)
    /\ last' = Event("move", <<>>)
    /\ UNCHANGED << links, nextId, selectedElement, now, drag >>

\* The list row under the pointer: the index of its atom, 0 when none.
\* Row i (from 0) is FloatRect(16, yList + 24 i, SIDEBAR_W - 32, 22).
ListRowAt(as, m) ==
    LET InRow(i) == RectContains(RowLeft, ListTop + RowPitch * (i - 1),
                                 SIDEBAR_W - 32, RowHeight, m)
    IN  IF \E i \in Indices(as) : InRow(i)
        THEN CHOOSE i \in Indices(as) :
                InRow(i) /\ \A j \in 1..(i - 1) : ~InRow(j)
        ELSE 0

\* Mutant of AtomsAfterListPress: without the modifier the other atoms
\* keep their selection.
AtomsAfterListPressKeepsOthers(as, i, ctrl) ==
    IF i = 0 THEN as
    ELSE IF ctrl THEN [as EXCEPT ![i].selected = ~as[i].selected]
    ELSE [as EXCEPT ![i].selected = TRUE]

\* List press on row i: toggle with the modifier, else select only it.
AtomsAfterListPress(as, i, ctrl) ==
    IF i = 0 THEN as
    ELSE IF ctrl THEN [as EXCEPT ![i].selected = ~as[i].selected]
    ELSE [j \in Indices(as) |-> [as[j] EXCEPT !.selected = (j = i)]]

\* Mutant of HitId: the first atom in reach wins.
HitIdFirst(as, m) ==
    LET inReach == {i \in Indices(as) : Hits(m, as[i].pos)}
    IN  IF inReach = {} THEN NoHit
        ELSE as[CHOOSE i \in inReach : \A j \in inReach : i <= j].id

\* Canvas hit-test: hitId is overwritten by every atom in reach, so the
\* last one in store order stays.
HitId(as, m) ==
    LET inReach == {i \in Indices(as) : Hits(m, as[i].pos)}
    IN  IF inReach = {} THEN NoHit
        ELSE as[CHOOSE i \in inReach : \A j \in inReach : j <= i].id

\* Mutant of AtomsAfterCanvasPress: a press that hits nothing keeps the
\* selection.
AtomsAfterCanvasPressKeepsOnMiss(as, hitId, ctrl) ==
    IF hitId = NoHit
    THEN as
    ELSE IF ctrl
    THEN [j \in Indices(as) |->
            IF as[j].id = hitId
            THEN [as[j] EXCEPT !.selected = ~as[j].selected] ELSE as[j]]
    ELSE [j \in Indices(as) |-> [as[j] EXCEPT !.selected = (as[j].id = hitId)]]

\* Canvas press: the selection after it.
AtomsAfterCanvasPress(as, hitId, ctrl) ==
    IF hitId = NoHit
    THEN [j \in Indices(as) |-> [as[j] EXCEPT !.selected = FALSE]]
    ELSE IF ctrl
    THEN [j \in Indices(as) |->
            IF as[j].id = hitId
            THEN [as[j] EXCEPT !.selected = ~as[j].selected] ELSE as[j]]
    ELSE [j \in Indices(as) |-> [as[j] EXCEPT !.selected = (as[j].id = hitId)]]

\* MouseButtonPressed with the left button at m; ctrl is what
\* sf::Keyboard::isKeyPressed answers for LControl || RControl.
MouseButtonPressed(m, ctrl, env) ==
    LET b == ButtonAt(m) IN
    IF b # 0
    THEN \* a button: run its command, then `continue`
         /\ OnClick(b, env)
         /\ last' = Event(ButtonNames[b],
                          IF b = 6 THEN <<Len(links)>>
                          ELSE IF b = 7
                          THEN IF last.ev \in {"list", "canvas"} /\ last.info = <<1>>
                               THEN <<Len(links), 1>> ELSE <<Len(links)>>
                          ELSE <<>>)
         /\ UNCHANGED << drag, hover >>
    ELSE IF m[1] < SIDEBAR_W
    THEN \* the atom list of the left panel
         LET i == ListRowAt(atoms, m) IN
         /\ atoms' = AtomsAfterListPress(atoms, i, ctrl)
         /\ last' = Event("list",
                          IF last.ev = "addAtom" /\ ~ctrl /\ i # 0 /\ i = Len(atoms)
                          THEN <<1>> ELSE <<>>)
         /\ UNCHANGED << links, nextId, selectedElement, now, drag, hover >>
    ELSE \* the canvas
         LET hitId == HitId(atoms, m)
             i == IndexOfId(atoms, hitId)
         IN
         /\ atoms' = AtomsAfterCanvasPress(atoms, hitId, ctrl)
         /\ IF hitId # NoHit /\ i # 0
            THEN /\ dragging' = TRUE
                 /\ draggingId' = hitId
                 /\ dragOffset' = << m[1] - atoms[i].pos[1],
                                     m[2] - atoms[i].pos[2] >>
            ELSE UNCHANGED drag
         /\ last' = Event("canvas",
                          IF last.ev = "addAtom" /\ ~ctrl /\ i # 0 /\ i = Len(atoms)
                          THEN <<1>> ELSE <<>>)
         /\ UNCHANGED << links, nextId, selectedElement, now, hover >>

\* Mutant of MouseButtonReleased: draggingId is reset, dragging is not.
MouseButtonReleasedKeepsFlag ==
    /\ draggingId' = NoDrag
    /\ last' = Event("release", <<>>)
    /\ UNCHANGED << store, dragging, dragOffset, hover >>

MouseButtonReleased ==
    /\ dragging' = FALSE
    /\ draggingId' = NoDrag
    /\ last' = Event("release", <<>>)
    /\ UNCHANGED << store, dragOffset, hover >>

\* Mutant of Fires: the comparison is strict.
FiresStrict(a, t) == HasSchedule(a) /\ t > a.scheduledStart[1]

\* The activation check of the time update: a.scheduledStart && t >= *it
Fires(a, t) == HasSchedule(a) /\ t >= a.scheduledStart[1]

\* e.angle += e.speed * (1.f/60.f) for every electron of a
Integrate(a) ==
    [a EXCEPT !.electrons =
        [n \in Indices(a.electrons) |->
            [a.electrons[n] EXCEPT
                !.angle = a.electrons[n].angle + a.electrons[n].speed]]]

\* Mutant of FrameAtom: the orbit integration runs before the activation
\* check.
FrameAtomIntegratesFirst(a, t) ==
    LET a1 == IF a.active THEN Integrate(a) ELSE a
    IN  IF Fires(a1, t)
        THEN [a1 EXCEPT !.active = TRUE, !.scheduledStart = NoSchedule]
        ELSE a1

\* Mutant of FrameAtom: a schedule that fires is not cleared.
FrameAtomKeepsSchedule(a, t) ==
    LET a1 == IF Fires(a, t) THEN [a EXCEPT !.active = TRUE] ELSE a
    IN  IF a1.active THEN Integrate(a1) ELSE a1

\* One atom's part of the time update at clock reading t: the activation
\* check, then the orbit integration.
FrameAtom(a, t) ==
    LET a1 == IF Fires(a, t)
              THEN [a EXCEPT !.active = TRUE, !.scheduledStart = NoSchedule]
              ELSE a
    IN  IF a1.active THEN Integrate(a1) ELSE a1

\* The time update of one loop iteration; t is the clock reading of line
\* 314.  The loop is frame-limited, so successive readings grow.
FrameUpdate(t) ==
    /\ t > now
    /\ now' = t
    /\ atoms' = [i \in Indices(atoms) |-> FrameAtom(atoms[i], t)]
    /\ last' = Event("frame",
                     <<Cardinality({i \in Indices(atoms) : Fires(atoms[i], t)})>>)
    /\ UNCHANGED << links, nextId, selectedElement, drag, hover >>

\* ------------------------------------------------------ the environment
\* A point inside button k, a point inside list row i (from 1), and a
\* point of the list panel between the first two rows.
ButtonPoint(k) == << ButtonRects[k][1] + 10, ButtonRects[k][2] + 10 >>
ListPoint(i) == << 100, ListTop + RowPitch * (i - 1) + 10 >>
ListGap == << 100, ListTop + RowHeight >>
ListPoints(n) == {ListPoint(i) : i \in 1..n} \cup {ListGap}

\* Where addAtom's two std::rand() calls may put an atom
\* (x in 420..1019, y in 100..599).
InitPositions == { <<500, 300>> }
\* Canvas points the pointer visits: one within reach of the initial
\* position, grabbing it at offset (5, 5), and one in the canvas corner,
\* outside the clamped region and out of reach of every clamped position.
GrabPoint == <<505, 305>>
CornerPoint == <<321, 1>>
CanvasPoints == { GrabPoint, CornerPoint }
Seeds == { 7 }

NoEnv == [clk |-> now, pos |-> <<0, 0>>, seed |-> 0]

\* What a press on button k draws from the environment; clocks are the
\* readings simClock may give.
ButtonEnvs(k, clocks) ==
    CASE k = 3 -> {[clk |-> now, pos |-> p, seed |-> sd] :
                      p \in InitPositions, sd \in Seeds}
      [] k = 5 -> {[NoEnv EXCEPT !.clk = t] : t \in clocks}
      [] OTHER -> {NoEnv}

\* A press on one of the buttons; Add Atom while ids up to maxId remain.
PressButton(buttons, clocks, maxId) ==
    \E k \in buttons : \E e \in ButtonEnvs(k, clocks) :
        /\ k = 3 => nextId <= maxId
        /\ MouseButtonPressed(ButtonPoint(k), FALSE, e)

\* A press on one of the points (list panel or canvas), the modifier held
\* or not.
PressPoint(points) ==
    \E m \in points : \E ctrl \in BOOLEAN : MouseButtonPressed(m, ctrl, NoEnv)

\* Spec, the interaction machine: presses on the list and the canvas,
\* pointer moves, releases, and the buttons that add and remove atoms and
\* links.  No frame passes (the clock reads 0 throughout).
Next ==
    \/ PressButton({3, 6, 7, 8}, {now}, MaxAtoms)
    \/ PressPoint(ListPoints(MaxAtoms) \cup CanvasPoints)
    \/ \E m \in CanvasPoints : MouseMoved(m)
    \/ MouseButtonReleased
Spec == Init /\ [][Next]_vars

\* SpecStore, the entity store: atoms are added, selected in the list,
\* linked, removed and cleared.
StoreNext ==
    \/ PressButton({3, 6, 7, 8}, {now}, StoreAtoms)
    \/ PressPoint(ListPoints(StoreAtoms))
SpecStore == Init /\ [][StoreNext]_vars

\* SpecCmd, the six commands on atoms and links and list selection, the
\* atoms toggled and scheduled at will.  Link Pair is pressed while the
\* store holds no link yet, or with a selection that is not a pair.
CmdNext ==
    \/ PressButton({3, 4, 5, 7, 8}, {now}, StoreAtoms)
    \/ /\ links = <<>> \/ Len(SelectedIds(atoms)) # 2
       /\ PressButton({6}, {now}, StoreAtoms)
    \/ PressPoint(ListPoints(StoreAtoms))
SpecCmd == Init /\ [][CmdNext]_vars

\* SpecSched, the activation scheduler: atoms are added, selected in the
\* list, toggled and scheduled while frames pass and the clock advances.
SchedNext ==
    \/ PressButton(3..5, now..MaxTime, FewAtoms)
    \/ PressPoint(ListPoints(FewAtoms))
    \/ \E t \in (now + 1)..MaxTime : FrameUpdate(t)
SpecSched == Init /\ [][SchedNext]_vars

\* SpecPress, presses and releases with every button in reach: the element
\* is cycled between Chlorine, Hydrogen and Helium (both wrap-arounds).
PressNext ==
    \/ /\ selectedElement \in {0, 1}
       /\ PressButton({1}, {now}, FewAtoms)
    \/ /\ selectedElement \in {NumElements - 1, 0}
       /\ PressButton({2}, {now}, FewAtoms)
    \/ PressButton(3..8, {now}, FewAtoms)
    \/ PressPoint(ListPoints(FewAtoms) \cup CanvasPoints)
    \/ MouseButtonReleased
SpecPress == Init /\ [][PressNext]_vars

\* SpecDrag, dragging: atoms are added, pressed on the canvas, carried by
\* the pointer and released.  The pointer also visits (450, 280), where an
\* atom grabbed at offset (5, 5) comes to rest unclamped at (445, 275).
DragPoints == CanvasPoints \cup { <<450, 280>> }
DragNext ==
    \/ PressButton({3}, {now}, MaxAtoms)
    \/ PressPoint(DragPoints)
    \/ \E m \in DragPoints : MouseMoved(m)
    \/ MouseButtonReleased
SpecDrag == Init /\ [][DragNext]_vars

\* SpecOrbit, the orbit integrator among everything else that touches an
\* atom: atoms are added, selected in the list and on the canvas, dragged,
\* toggled, scheduled and linked while frames pass.
OrbitNext ==
    \/ PressButton(3..6, {now}, FewAtoms)
    \/ PressPoint(ListPoints(FewAtoms))
    \/ MouseButtonPressed(GrabPoint, FALSE, NoEnv)
    \/ MouseMoved(CornerPoint)
    \/ \E t \in (now + 1)..OrbitTime : FrameUpdate(t)
SpecOrbit == Init /\ [][OrbitNext]_vars

\* SpecElectrons, the electron distribution generator.  A run starts with
\* a call of makeElectronsForElement(Z) pending, Z drawn from -BelowZ..MaxZ,
\* which the first step may carry out; the program then adds atoms of
\* Hydrogen and Chlorine, selects, toggles, schedules, links and removes
\* them while frames pass.
InitElectrons ==
    /\ atoms = <<>>
    /\ links = <<>>
    /\ nextId = 1
    /\ selectedElement = 0
    /\ now = 0
    /\ dragging = FALSE
    /\ dragOffset = <<0, 0>>
    /\ draggingId = NoDrag
    /\ hover = [k \in 1..Len(ButtonRects) |-> FALSE]
    /\ last \in {Event("call", <<z, sd>>) : z \in (-BelowZ)..MaxZ, sd \in Seeds}

\* The pending call returns: the history holds its argument and result.
CallMakeElectrons ==
    /\ last.ev = "call"
    /\ last' = Event("makeElectronsForElement",
                     << last.info[1],
                        makeElectronsForElement(last.info[1], last.info[2]) >>)
    /\ UNCHANGED << store, drag, hover >>

ElectronsNext ==
    \/ CallMakeElectrons
    \/ /\ selectedElement = 0
       /\ PressButton({1}, {now}, FewAtoms)
    \/ PressButton(3..8, {now}, FewAtoms)
    \/ PressPoint(ListPoints(FewAtoms))
    \/ \E t \in (now + 1)..OrbitTime : FrameUpdate(t)
SpecElectrons == InitElectrons /\ [][ElectronsNext]_vars

\* SpecLive, the activation scheduler with the loop running: as SpecSched
\* with Remove Selected, and the time update of the main loop (lines
\* 314-325 run in every iteration, and simClock advances) is taken again
\* and again.  Schedule +2s is pressed while the start it sets lies within
\* the clock readings 0..MaxTime.
Frame == \E t \in (now + 1)..MaxTime : FrameUpdate(t)
LiveNext ==
    \/ PressButton({3, 4, 7}, {now}, FewAtoms)
    \/ PressButton({5}, now..(MaxTime - ScheduleDelay), FewAtoms)
    \/ PressPoint(ListPoints(FewAtoms))
    \/ Frame
SpecLive == Init /\ [][LiveNext]_vars /\ WF_vars(Frame)

\* ================================================================ claims

\* C1 (as stated): in every reachable state no atom is at once active and
\* carrying a pending scheduledStart (each atom is Idle, Scheduled or
\* Active).  Checked under SpecSched.
C1_ActiveXorScheduled ==
    \A i \in Indices(atoms) : ~(atoms[i].active /\ HasSchedule(atoms[i]))

\* The steps of C2: what scheduleSelected and a frame update do to each atom.
C2_ScheduleStep ==
    last'.ev = "scheduleSelected" =>
        /\ Len(atoms') = Len(atoms)
        /\ \A i \in Indices(atoms) :
              atoms[i].selected =>
                  atoms'[i].scheduledStart = <<now' + ScheduleDelay>>
C2_FrameStep ==
    last'.ev = "frame" =>
        /\ Len(atoms') = Len(atoms)
        /\ \A i \in Indices(atoms) :
              LET a == atoms[i]
                  b == atoms'[i]
              IN  /\ (HasSchedule(a) /\ now' < a.scheduledStart[1]) =>
                        /\ b.active = a.active
                        /\ b.scheduledStart = a.scheduledStart
                  /\ (HasSchedule(a) /\ now' >= a.scheduledStart[1]) =>
                        /\ b.active
                        /\ ~HasSchedule(b)
                  /\ ~HasSchedule(a) =>
                        /\ b.active = a.active
                        /\ ~HasSchedule(b)
C3_NoDanglingLink ==
    \A i \in Indices(links) :
        links[i].aId \in IdSet(atoms) /\ links[i].bId \in IdSet(atoms)

\* C3 witness: Remove Selected has just pruned a link (the store held more
\* links before it) while atoms and another link remain.
C3_Witness ==
    /\ last.ev = "removeSelected" /\ last.info[1] > Len(links)
    /\ links # <<>> /\ atoms # <<>>

\* The parts of C4: the state predicate and the linkPair step.
C4_Canonical ==
    /\ \A i \in Indices(links) : links[i].aId <= links[i].bId
    /\ \A i, j \in Indices(links) :
          (links[i].aId = links[j].aId /\ links[i].bId = links[j].bId) => i = j
C4_LinkStep ==
    (last'.ev = "linkPair" /\ Cardinality({i \in Indices(atoms) : atoms[i].selected}) = 2) =>
        LET ids == {atoms[i].id : i \in {j \in Indices(atoms) : atoms[j].selected}}
            lo == CHOOSE x \in ids : \A y \in ids : x <= y
            hi == CHOOSE x \in ids : \A y \in ids : y <= x
            Has(ls) == {i \in Indices(ls) : ls[i].aId = lo /\ ls[i].bId = hi}
        IN  /\ Cardinality(Has(links')) = 1
            /\ Has(links) # {} => links' = links
\* C4: every stored link has aId <= bId and no pair is stored twice; a
\* linkPair with exactly two atoms selected leaves exactly one link for
\* their pair, (min id, max id), and adds none when it was there already.
\* Checked under SpecStore.
C4_LinksDedup == []C4_Canonical /\ [][C4_LinkStep]_vars

\* C4 witness: Link Pair was pressed with two atoms selected whose link
\* was stored already; the number of links did not change.
C4_Witness ==
    /\ last.ev = "linkPair" /\ last.info = <<Len(links)>>
    /\ Len(SelectedIds(atoms)) = 2
    /\ links # <<>>

\* The parts of C5: the state predicate and the step.
C5_IdsBelowNext ==
    /\ \A i \in Indices(atoms) : atoms[i].id >= 1 /\ atoms[i].id < nextId
    /\ \A i, j \in Indices(atoms) : atoms[i].id = atoms[j].id => i = j
C5_IdStep ==
    /\ nextId' >= nextId
    /\ last'.ev = "addAtom" =>
          /\ Len(atoms') = Len(atoms) + 1
          /\ atoms'[Len(atoms')].id = nextId
          /\ nextId' = nextId + 1
          /\ \A i \in Indices(atoms) : atoms[i].id < atoms'[Len(atoms')].id
\* C5: the ids of the atoms in the store are distinct and below nextId;
\* nextId never decreases; addAtom gives the new atom the id nextId, which
\* is above the id of every atom in the store, and advances nextId by one.
\* So no id is assigned twice, also after removeSelected and clearAll.
\* Checked under SpecStore.
C5_IdsNeverReused == []C5_IdsBelowNext /\ [][C5_IdStep]_vars

\* C5 witness: addAtom has just given id 3 to the only atom of the store:
\* the atoms that had ids 1 and 2 were removed or cleared before it.
C5_Witness ==
    /\ last.ev = "addAtom"
    /\ Len(atoms) = 1 /\ atoms[1].id = 3

\* The k-th smallest element of the set of numbers S.
KthOf(S, k) == CHOOSE x \in S : Cardinality({y \in S : y <= x}) = k

\* The step of C6.
C6_RemoveStep ==
    last'.ev = "removeSelected" =>
        LET keptAtoms == {i \in Indices(atoms) : ~atoms[i].selected}
            removedIds == {atoms[i].id : i \in Indices(atoms) \ keptAtoms}
            keptLinks == {i \in Indices(links) :
                             links[i].aId \notin removedIds
                             /\ links[i].bId \notin removedIds}
        IN  /\ Len(atoms') = Cardinality(keptAtoms)
            /\ \A k \in Indices(atoms') : atoms'[k] = atoms[KthOf(keptAtoms, k)]
            /\ Len(links') = Cardinality(keptLinks)
            /\ \A k \in Indices(links') : links'[k] = links[KthOf(keptLinks, k)]
\* C6: removeSelected leaves, in one step, exactly the unselected atoms,
\* each with every field unchanged and in the same relative order, and
\* exactly the links neither endpoint of which was a selected atom, in the
\* same order.  Checked under SpecCmd.
C6_RemoveExact == [][C6_RemoveStep]_vars

\* C6 witness: Remove Selected has just removed the atom with id 3 and
\* kept the two others, one of them active and one of them scheduled,
\* with the link between them.
C6_Witness ==
    /\ last.ev = "removeSelected" /\ last.info = <<1>>
    /\ nextId = 4 /\ Len(atoms) = 2 /\ Len(links) = 1
    /\ \E i \in Indices(atoms) : atoms[i].active
    /\ \E i \in Indices(atoms) : HasSchedule(atoms[i])

\* The step of C7.
C7_NoOpStep ==
    LET nSel == Cardinality({i \in Indices(atoms) : atoms[i].selected})
    IN  /\ ( /\ last'.ev \in {"toggleActiveSelected", "scheduleSelected",
                              "linkPair", "removeSelected"}
             /\ nSel = 0 )
            => (atoms' = atoms /\ links' = links)
        /\ (last'.ev = "linkPair" /\ nSel # 2)
            => (atoms' = atoms /\ links' = links)
\* C7: with no atom selected, toggleActiveSelected, scheduleSelected,
\* linkPair and removeSelected leave the atoms and the links unchanged;
\* linkPair leaves both unchanged whenever the number of selected atoms is
\* not 2.  Checked under SpecCmd.
C7_SelectionNoOps == [][C7_NoOpStep]_vars

\* C7 witness: Link Pair has just been pressed with three atoms selected,
\* in a store that holds a link and an active atom.
C7_Witness ==
    /\ last.ev = "linkPair"
    /\ Len(SelectedIds(atoms)) = 3
    /\ links # <<>>
    /\ \E i \in Indices(atoms) : atoms[i].active

\* The step of C8.
C8_ReleaseStep ==
    /\ last'.ev = "release" => (~dragging' /\ draggingId' = NoDrag)
    /\ (last'.ev = "move" /\ ~dragging) => atoms' = atoms
    /\ (~dragging /\ dragging') =>
          (last'.ev = "canvas" /\ \E i \in Indices(atoms) : atoms[i].id = draggingId')
\* C8: a release leaves dragging = false and draggingId = -1 whatever the
\* state before; while not dragging, a pointer move changes no atom; and
\* dragging becomes true only by a canvas press.  Checked under Spec.
C8_ReleaseIdles == [][C8_ReleaseStep]_vars

\* C8 witness: the pointer has just moved while the machine is Idle after
\* an earlier drag (the grab offset of that drag is still stored) that had
\* carried an atom to the canvas corner.
C8_Witness ==
    /\ last.ev = "move"
    /\ ~dragging /\ draggingId = NoDrag /\ dragOffset # <<0, 0>>
    /\ \E i \in Indices(atoms) : atoms[i].pos # <<500, 300>>

\* The step of C9.
C9_ButtonStep ==
    (\E k \in 1..Len(ButtonNames) : last'.ev = ButtonNames[k]) =>
        /\ dragging' = dragging
        /\ draggingId' = draggingId
        /\ dragOffset' = dragOffset
        /\ \A i \in Indices(atoms) : \A j \in Indices(atoms') :
              atoms'[j].id = atoms[i].id => atoms'[j].selected = atoms[i].selected
\* C9: a press over a button changes neither dragging, draggingId nor
\* dragOffset, and every atom in the store after it that was there before
\* has its selected flag unchanged.  Checked under SpecPress.
C9_ButtonsFirst == [][C9_ButtonStep]_vars

\* C9 witness: Toggle Active has just been pressed in the middle of a
\* drag: the dragged atom is selected and now active.
C9_Witness ==
    /\ last.ev = "toggleActiveSelected"
    /\ dragging
    /\ \E i \in Indices(atoms) :
          atoms[i].id = draggingId /\ atoms[i].selected /\ atoms[i].active

\* The step of C10.
C10_SelectStep ==
    \A m \in ListPoints(MaxAtoms) \cup CanvasPoints : \A ctrl \in BOOLEAN :
        MouseButtonPressed(m, ctrl, NoEnv) =>
            LET inList == m[1] < SIDEBAR_W
                cands == IF inList
                         THEN {i \in Indices(atoms) :
                                 /\ m[2] >= ListTop + RowPitch * (i - 1)
                                 /\ m[2] < ListTop + RowPitch * (i - 1) + RowHeight
                                 /\ m[1] >= RowLeft
                                 /\ m[1] < RowLeft + SIDEBAR_W - 32}
                         ELSE {i \in Indices(atoms) : Hits(m, atoms[i].pos)}
            IN  cands # {} =>
                  /\ Len(atoms') = Len(atoms)
                  /\ \E A \in cands :
                        IF ctrl
                        THEN /\ atoms'[A].selected = ~atoms[A].selected
                             /\ \A j \in Indices(atoms) \ {A} :
                                   atoms'[j].selected = atoms[j].selected
                        ELSE /\ atoms'[A].selected
                             /\ \A j \in Indices(atoms) \ {A} : ~atoms'[j].selected
\* C10: a list press inside the row of an atom, or a canvas press within
\* reach of some atom, hits an atom A of the store (the atom of the row;
\* an atom within reach): without the modifier A is selected afterwards
\* and every other atom is not; with the modifier A's selected flag is
\* flipped and every other atom's is unchanged.  Checked under Spec.
C10_SelectionRule == [][C10_SelectStep]_vars

\* C10 witness: a canvas press has just hit an atom of a store of two: it
\* is the dragged atom and the only one selected.
C10_Witness ==
    /\ last.ev = "canvas"
    /\ Len(atoms) = 2
    /\ dragging
    /\ \A i \in Indices(atoms) : atoms[i].selected = (atoms[i].id = draggingId)

\* The steps of C11: the grab offset a canvas press stores, and where a
\* pointer move puts the dragged atom.
C11_GrabStep ==
    \A m \in DragPoints : \A ctrl \in BOOLEAN :
        ( /\ MouseButtonPressed(m, ctrl, NoEnv)
          /\ m[1] >= SIDEBAR_W
          /\ \E i \in Indices(atoms) : Hits(m, atoms[i].pos) ) =>
            \E A \in Indices(atoms) :
                /\ Hits(m, atoms[A].pos)
                /\ atoms[A].id = draggingId'
                /\ dragging'
                /\ dragOffset' = << m[1] - atoms[A].pos[1], m[2] - atoms[A].pos[2] >>
C11_MoveStep ==
    \A p \in DragPoints :
        (MouseMoved(p) /\ dragging) =>
            \A A \in Indices(atoms) :
                IF atoms[A].id = draggingId
                THEN LET x == p[1] - dragOffset[1]
                         y == p[2] - dragOffset[2]
                     IN  /\ atoms'[A].pos =
                               << Max(SIDEBAR_W + 20, Min(WinWidth - 20, x)),
                                  Max(20, Min(WinHeight - 20, y)) >>
                         /\ (p = <<450, 280>> /\ dragOffset = <<5, 5>>)
                               => atoms'[A].pos = <<445, 275>>
                ELSE atoms'[A].pos = atoms[A].pos
\* C11: a canvas press that starts a drag of atom A stores the grab offset
\* g = press position - A's position; a pointer move to p while dragging A
\* puts A at (p - g) with x clamped into [SIDEBAR_W + 20, 1200 - 20] and y
\* into [20, 800 - 20], and leaves the position of every other atom as it
\* was; with g = (5, 5) and p = (450, 280) A comes to (445, 275).  Checked
\* under SpecDrag.
C11_DragFollowsPointer == [][C11_GrabStep /\ C11_MoveStep]_vars

\* C11 witness: the pointer has just carried the dragged atom, grabbed at
\* offset (5, 5), to (445, 275), while another atom stays where a drag to
\* the canvas corner had left it, clamped to (340, 20).
C11_Witness ==
    /\ last.ev = "move"
    /\ dragging /\ dragOffset = <<5, 5>>
    /\ \E A, B \in Indices(atoms) :
          /\ atoms[A].id = draggingId /\ atoms[A].pos = <<445, 275>>
          /\ atoms[B].id # draggingId /\ atoms[B].pos = <<340, 20>>

\* The step of C12.
C12_AngleStep ==
    IF last'.ev = "frame"
    THEN /\ Len(atoms') = Len(atoms)
         /\ \A i \in Indices(atoms) :
               LET a == atoms[i]
                   b == atoms'[i]
                   activeInUpdate ==
                       \/ a.active
                       \/ HasSchedule(a) /\ now' >= a.scheduledStart[1]
               IN  /\ Len(b.electrons) = Len(a.electrons)
                   /\ \A n \in Indices(a.electrons) :
                         /\ b.electrons[n].radius = a.electrons[n].radius
                         /\ b.electrons[n].speed = a.electrons[n].speed
                         /\ b.electrons[n].angle =
                               IF activeInUpdate
                               THEN a.electrons[n].angle + a.electrons[n].speed
                               ELSE a.electrons[n].angle
    ELSE \A i \in Indices(atoms) : \A j \in Indices(atoms') :
            atoms'[j].id = atoms[i].id => atoms'[j].electrons = atoms[i].electrons
\* C12: a frame update adds one step (the electron's speed, in the units
\* of the model) to the angle of every electron of every atom that is
\* active in that update (active before it, or activated by its schedule
\* in it) and leaves the electrons of every other atom as they were; every
\* other step (a command, a press, a pointer move) leaves the electrons of
\* every atom it keeps exactly as they were, so an atom that is deactivated
\* and reactivated resumes from the angle it had.  Checked under SpecOrbit.
C12_AnglesOnlyIntegrate == [][C12_AngleStep]_vars

\* C12 witness: Toggle Active has just reactivated an atom whose first
\* electron stands one step from its initial angle 0: the atom was active
\* in the one frame that has passed and was deactivated after it.  It had
\* been dragged to the canvas corner and is scheduled.
C12_Witness ==
    /\ last.ev = "toggleActiveSelected"
    /\ now = 1
    /\ \E i \in Indices(atoms) :
          /\ atoms[i].active
          /\ atoms[i].pos = <<340, 20>>
          /\ HasSchedule(atoms[i])
          /\ atoms[i].electrons[1].angle = atoms[i].electrons[1].speed
          /\ atoms[i].electrons[1].speed # 0

\* The parts of C13: the electrons a call returns, and the electrons of
\* the atoms of the store from step to step.
C13_CountRule ==
    last.ev = "makeElectronsForElement" =>
        LET Z   == last.info[1]
            e   == last.info[2]
            tot == IF Z <= 0 THEN 0 ELSE IF Z > 24 THEN 24 ELSE Z
            n1  == IF tot < 2 THEN tot ELSE 2
            n2  == IF tot - n1 < 8 THEN tot - n1 ELSE 8
            n3  == IF tot - n1 - n2 < 8 THEN tot - n1 - n2 ELSE 8
            n4  == IF tot - n1 - n2 - n3 < 18 THEN tot - n1 - n2 - n3 ELSE 18
        IN  /\ Len(e) = tot
            /\ n1 + n2 + n3 + n4 = tot
            /\ \A n \in Indices(e) :
                  e[n].radius = IF n <= n1 THEN 30
                                ELSE IF n <= n1 + n2 THEN 50
                                ELSE IF n <= n1 + n2 + n3 THEN 70
                                ELSE 90
C13_CountStep ==
    /\ \A i \in Indices(atoms) : \A j \in Indices(atoms') :
          atoms'[j].id = atoms[i].id =>
              Len(atoms'[j].electrons) = Len(atoms[i].electrons)
    /\ last'.ev = "addAtom" =>
          LET Z == ElementZ[selectedElement + 1]
          IN  Len(atoms'[Len(atoms')].electrons) = IF Z > 24 THEN 24 ELSE Z
\* C13: makeElectronsForElement(Z) returns Z electrons for 1 <= Z <= 24,
\* 24 for Z > 24 and none for Z <= 0, the first min(rest, 2) of them on the
\* shell of radius 30, the next min(rest, 8) on 50, the next min(rest, 8)
\* on 70 and the next min(rest, 18) on 90; an atom is created with the
\* electrons of its element's atomic number, and no step changes the
\* number of electrons of an atom it keeps.  Checked under SpecElectrons.
C13_ElectronCount == []C13_CountRule /\ [][C13_CountStep]_vars

\* C13 witness: a call with an atomic number above 24 has returned 24
\* electrons, the last of them on the fourth shell.
C13_Witness ==
    /\ last.ev = "makeElectronsForElement"
    /\ last.info[1] > 24
    /\ Len(last.info[2]) = 24
    /\ last.info[2][24].radius = 90

\* The steps of C14: addAtom, the press that selects the new atom alone,
\* and the Remove Selected that follows it.
C14_AddStep ==
    last'.ev = "addAtom" =>
        /\ Len(atoms') = Len(atoms) + 1
        /\ atoms'[Len(atoms')].id \notin IdSet(atoms)
        /\ IdSet(atoms') = IdSet(atoms) \cup {atoms'[Len(atoms')].id}
        /\ links' = links
C14_PickStep ==
    (last'.ev \in {"list", "canvas"} /\ last'.info = <<1>>) =>
        /\ last.ev = "addAtom"
        /\ Len(atoms') = Len(atoms)
        /\ \A j \in Indices(atoms) :
              /\ atoms'[j].id = atoms[j].id
              /\ atoms'[j].selected = (j = Len(atoms))
        /\ links' = links
C14_BackStep ==
    (last'.ev = "removeSelected" /\ Len(last'.info) = 2) =>
        /\ last.ev \in {"list", "canvas"} /\ last.info = <<1>>
        /\ Len(atoms') = Len(atoms) - 1
        /\ IdSet(atoms') = IdSet(atoms) \ {atoms[Len(atoms)].id}
        /\ links' = links
\* C14: addAtom adds one atom with a new id and leaves the links; the
\* press right after it that selects the new atom without the modifier
\* keeps atoms and links and leaves the new atom the only one selected;
\* the removeSelected right after that removes exactly the new atom and
\* leaves the links.  So the three steps return the atom count and the set
\* of ids to what they were before addAtom, with the links unchanged.
\* Checked under SpecStore.
C14_AddSelectRemove == [][C14_AddStep /\ C14_PickStep /\ C14_BackStep]_vars

\* C14 witness: Remove Selected has just completed such a round trip (the
\* atom with id 3 was added, selected and removed) in a store that holds
\* two linked atoms.
C14_Witness ==
    /\ last.ev = "removeSelected" /\ Len(last.info) = 2
    /\ Len(atoms) = 2 /\ Len(links) = 1
    /\ nextId = 4

\* The states of C15: the atom with this id carries the schedule s; it is
\* active with no schedule, or gone, or carries another schedule.
C15_Pending(id, s) ==
    \E i \in Indices(atoms) :
        atoms[i].id = id /\ atoms[i].scheduledStart = <<s>>
C15_Settled(id, s) ==
    \/ \E i \in Indices(atoms) :
          atoms[i].id = id /\ atoms[i].active /\ ~HasSchedule(atoms[i])
    \/ id \notin IdSet(atoms)
    \/ \E i \in Indices(atoms) :
          atoms[i].id = id /\ HasSchedule(atoms[i]) /\ atoms[i].scheduledStart # <<s>>
\* C15: while the time update keeps running and the clock advances, an
\* atom that carries a pending scheduledStart s leads to that atom being
\* active with its schedule cleared, unless it is removed or given another
\* schedule first.  Checked under SpecLive.
C15_ScheduledBecomesActive ==
    \A id \in 1..FewAtoms : \A s \in ScheduleDelay..MaxTime :
        C15_Pending(id, s) ~> C15_Settled(id, s)

\* C15 witness: the frame update at the last clock reading has just fired
\* the schedule of an atom that was scheduled for that very reading.
C15_Witness ==
    /\ last.ev = "frame" /\ last.info = <<1>>
    /\ now = MaxTime
    /\ \E i \in Indices(atoms) :
          /\ atoms[i].active /\ ~HasSchedule(atoms[i])
          /\ atoms[i].electrons[1].angle = atoms[i].electrons[1].speed

\* The step of C16.
C16_DeactivateStep ==
    \A i \in Indices(atoms) : \A j \in Indices(atoms') :
        (atoms'[j].id = atoms[i].id /\ atoms[i].active /\ ~atoms'[j].active) =>
            /\ last'.ev = "toggleActiveSelected"
            /\ atoms[i].selected
\* C16: an atom that is active before a step and inactive after it was
\* selected, and the step is toggleActiveSelected: addAtom,
\* scheduleSelected, linkPair, a list or canvas press, a pointer move and a
\* frame update never take an atom from active to inactive.  Checked under
\* SpecOrbit.
C16_OnlyToggleDeactivates == [][C16_DeactivateStep]_vars

\* C16 witness: Toggle Active has just deactivated a selected atom that
\* carries a schedule and whose electrons had advanced while it was active.
C16_Witness ==
    /\ last.ev = "toggleActiveSelected"
    /\ \E i \in Indices(atoms) :
          /\ ~atoms[i].active /\ atoms[i].selected
          /\ HasSchedule(atoms[i])
          /\ atoms[i].electrons[1].angle # 0

\* The step of C17.
C17_PressStep ==
    /\ \A m \in ListPoints(MaxAtoms) \cup CanvasPoints : \A ctrl \in BOOLEAN :
          MouseButtonPressed(m, ctrl, NoEnv) =>
              IF m[1] < SIDEBAR_W
              THEN /\ dragging' = dragging
                   /\ draggingId' = draggingId
                   /\ dragOffset' = dragOffset
              ELSE (\A i \in Indices(atoms) : ~Hits(m, atoms[i].pos)) =>
                       /\ Len(atoms') = Len(atoms)
                       /\ \A j \in Indices(atoms') : ~atoms'[j].selected
                       /\ dragging' = dragging
                       /\ draggingId' = draggingId
                       /\ dragOffset' = dragOffset
    /\ (~dragging /\ dragging') =>
          \E m \in CanvasPoints : \E ctrl \in BOOLEAN :
              /\ MouseButtonPressed(m, ctrl, NoEnv)
              /\ m[1] >= SIDEBAR_W
              /\ \E i \in Indices(atoms) :
                    Hits(m, atoms[i].pos) /\ atoms[i].id = draggingId'
C18_HitStep ==
    \A m \in CanvasPoints : \A ctrl \in BOOLEAN :
        MouseButtonPressed(m, ctrl, NoEnv) =>
            LET near == {i \in Indices(atoms) :
                            (m[1] - atoms[i].pos[1]) * (m[1] - atoms[i].pos[1])
                            + (m[2] - atoms[i].pos[2]) * (m[2] - atoms[i].pos[2])
                            <= (16 + 8) * (16 + 8)}
            IN  /\ Len(atoms') = Len(atoms)
                /\ IF near = {}
                   THEN /\ \A j \in Indices(atoms) : ~atoms'[j].selected
                        /\ dragging' = dragging
                        /\ draggingId' = draggingId
                   ELSE LET A == CHOOSE i \in near : \A j \in near : j <= i
                        IN  /\ \A j \in near : atoms[j].id <= atoms[A].id
                            /\ dragging'
                            /\ draggingId' = atoms[A].id
                            /\ dragOffset' = << m[1] - atoms[A].pos[1],
                                                m[2] - atoms[A].pos[2] >>
                            /\ atoms'[A].selected =
                                  IF ctrl THEN ~atoms[A].selected ELSE TRUE
                            /\ \A j \in Indices(atoms) \ {A} :
                                  atoms'[j].selected =
                                      IF ctrl THEN atoms[j].selected ELSE FALSE
\* C18: a canvas press at m looks at the atoms within nucleusRadius + 8 =
\* 24 of m.  If there are any, the one latest in store order, which has
\* the largest id of them, becomes the dragged atom with grab offset m
\* minus its position, and it alone is treated as hit: it is selected
\* (flipped with the modifier) and every other atom, within reach or not,
\* is deselected (kept with the modifier).  If there is none, no atom is
\* selected afterwards and no drag starts.  Checked under Spec.
C18_LatestInReachWins == [][C18_HitStep]_vars

\* C18 witness: a canvas press within reach of two atoms that lie on the
\* same spot has just picked the second: it is dragged and selected, the
\* first is not.
C18_Witness ==
    /\ last.ev = "canvas"
    /\ Len(atoms) = 2
    /\ atoms[1].pos = atoms[2].pos
    /\ dragging /\ draggingId = atoms[2].id
    /\ atoms[2].selected /\ ~atoms[1].selected
    /\ dragOffset = <<5, 5>>

\* The parts of C19: the dragged id is the id of an atom created before
\* the press, and what a pointer move and addAtom do.
C19_DraggedIdIsOld ==
    draggingId # NoDrag => (dragging /\ draggingId >= 1 /\ draggingId < nextId)
C19_MoveStep ==
    /\ last'.ev = "move" =>
          /\ Len(atoms') = Len(atoms)
          /\ \A i \in Indices(atoms) :
                /\ atoms[i].id # draggingId => atoms'[i] = atoms[i]
                /\ atoms'[i] = [atoms[i] EXCEPT !.pos = atoms'[i].pos]
          /\ draggingId \notin IdSet(atoms) => atoms' = atoms
          /\ draggingId' = draggingId
    /\ last'.ev = "addAtom" =>
          /\ atoms'[Len(atoms')].id # draggingId
          /\ draggingId' = draggingId
\* C19: draggingId, when set, is below nextId, so addAtom never creates an
\* atom with the dragged id; a pointer move changes nothing but the
\* position of the atom whose id is draggingId, and changes no atom at all
\* when the store holds no atom with that id (it was removed by Remove
\* Selected or Clear All before a release), also after further addAtom
\* calls.  Checked under Spec.
C19_DragMovesOnlyItsAtom == []C19_DraggedIdIsOld /\ [][C19_MoveStep]_vars

\* C19 witness: the pointer has just moved during a drag whose atom (id 1)
\* was removed; the store holds only the atom added after that.
C19_Witness ==
    /\ last.ev = "move"
    /\ dragging /\ draggingId = 1
    /\ Len(atoms) = 1 /\ atoms[1].id = 2
    /\ atoms[1].pos = <<500, 300>>

\* The step of C20.
C20_OrderStep ==
    last'.ev = "frame" =>
        /\ Len(atoms') = Len(atoms)
        /\ \A i \in Indices(atoms) :
              LET a == atoms[i]
                  b == atoms'[i]
              IN  /\ (HasSchedule(a) /\ now' >= a.scheduledStart[1]) =>
                        /\ b.active /\ ~HasSchedule(b)
                        /\ Len(b.electrons) = Len(a.electrons)
                        /\ \A n \in Indices(a.electrons) :
                              b.electrons[n].angle =
                                  a.electrons[n].angle + a.electrons[n].speed
                  /\ (HasSchedule(a) /\ now' < a.scheduledStart[1] /\ ~a.active) =>
                        /\ ~b.active
                        /\ b.electrons = a.electrons
\* C20: in a frame update the activation check of an atom comes before its
\* orbit integration: an atom whose schedule fires in the update, active
\* before it or not, has every electron advanced by one step in that same
\* update; an inactive atom whose schedule is still pending stays inactive
\* and its electrons stay where they are.  Checked under SpecSched.
C20_FiresThenIntegrates == [][C20_OrderStep]_vars

\* C20 witness: the frame update at the reading 2 has just fired the
\* schedule set at the reading 0, and the first electron of the atom, which
\* is no longer selected, stands exactly one step from its initial angle.
C20_Witness ==
    /\ last.ev = "frame" /\ last.info = <<1>>
    /\ now = ScheduleDelay
    /\ \E i \in Indices(atoms) :
          /\ atoms[i].active /\ ~HasSchedule(atoms[i]) /\ ~atoms[i].selected
          /\ atoms[i].electrons[1].angle = atoms[i].electrons[1].speed

====
